---- MODULE Spec2Model ----
(***************************************************************************)
(* Model of the NITS RDL deployment pipeline: the job runner               *)
(* (NITSPipelineOrchestrator.execute_job), the orchestrator (run_pipeline),*)
(* the status report, the pipeline command line (main), and of             *)
(* NITSRapidDeployment: deploy with its retry loop, start_server /         *)
(* find_available_port / stop_server and the health_check threads.         *)
(*                                                                         *)
(* One orchestrator or deployment object is constructed and one entry      *)
(* point is called on it, as the program does: main, or run_pipeline /     *)
(* execute_job / start_server / deploy called directly with arguments      *)
(* drawn from small sets. Every subprocess.run call is one step whose      *)
(* outcome (exit status or raised exception) is an input; health_check     *)
(* threads take their steps interleaved with the calling thread.           *)
(***************************************************************************)
EXTENDS Integers, Sequences, FiniteSets, TLC

\* ---------------------------------------------------------------- bounds
\* Largest retry_count of a job handed directly to execute_job.
MaxRetry == 3
\* Largest number of commands of a job handed directly to execute_job.
MaxCmds == 2

\* Largest DeploymentConfig.max_retries of a deployment.
MaxDeployRetries == 3

\* ------------------------------------------------------- program constants
\* PipelineJob.retry_count default
DefaultRetryCount == 2
\* PipelineJob.timeout_minutes default
DefaultTimeoutMinutes == 15
\* timeout_minutes of the Deploy job
DeployTimeoutMinutes == 5
\* DeploymentConfig.port default
DefaultPort == 5000
\* DeploymentConfig.max_retries default
DefaultMaxRetries == 3
\* The number of ports find_available_port probes
ScanRange == 100

VALIDATE == "validate"
BUILD == "build"
DEPLOY == "deploy"

\* The stages run_pipeline looks for in its argument.
PipelineStage == {VALIDATE, BUILD, DEPLOY}

PipelineEnvironment == {"development", "staging", "production"}

\* str.title() on the environment names
Title(env) ==
  CASE env = "development" -> "Development"
    [] env = "staging" -> "Staging"
    [] env = "production" -> "Production"

\* ------------------------------------------------------------- exceptions
\* What one subprocess.run call can do: return with an exit status, or raise.
CommandOutcomes ==
  {"exit0", "exit_nonzero", "TimeoutExpired", "OSError", "KeyboardInterrupt"}

\* isinstance(exc, cls) for the classes the handlers name.
IsInstance(exc, cls) ==
  CASE cls = "TimeoutExpired" -> exc = "TimeoutExpired"
    [] cls = "KeyboardInterrupt" -> exc = "KeyboardInterrupt"
    [] cls = "Exception" -> exc \in {"TimeoutExpired", "OSError", "RuntimeError"}
    [] cls = "BaseException" -> TRUE
    [] OTHER -> FALSE

\* The except clauses of execute_job, swapped: the generic clause first.
ExecuteJobClausesSwapped == <<"Exception", "TimeoutExpired">>

\* The handlers without the catch-all clause.
ExecuteJobClausesNoCatchAll == <<"TimeoutExpired">>

\* The except clauses of execute_job, in source order.
ExecuteJobClauses == <<"TimeoutExpired", "Exception">>

\* The except clauses of main, in source order.
MainClauses == <<"KeyboardInterrupt", "Exception">>

\* The first clause of a try statement that catches exc; "" when none does.
CaughtBy(clauses, exc) ==
  LET hits == {k \in DOMAIN clauses : IsInstance(exc, clauses[k])}
  IN IF hits = {} THEN ""
     ELSE clauses[CHOOSE k \in hits : \A m \in hits : k <= m]

\* The error execute_job logs for a clause.
FailureKindOf(clause) ==
  IF clause = "TimeoutExpired" THEN "CommandTimedOut" ELSE "UnexpectedException"

\* ------------------------------------------------------------ dict helpers
EmptyDict == [n \in {} |-> TRUE]

\* d[key] = value on a Python dict
DictSet(d, key, value) ==
  [n \in DOMAIN d \cup {key} |-> IF n = key THEN value ELSE d[n]]

\* A merge in which the left operand wins on a shared key.
DictMergeLeftWins(a, b) ==
  [n \in DOMAIN a \cup DOMAIN b |-> IF n \in DOMAIN a THEN a[n] ELSE b[n]]

\* {**a, **b}: the keys of both, b's value on a shared key.
DictMerge(a, b) ==
  [n \in DOMAIN a \cup DOMAIN b |-> IF n \in DOMAIN b THEN b[n] ELSE a[n]]

\* os.environ when the program starts: a variable no job sets and a NODE_ENV
\* of its own.
AmbientEnv ==
  DictSet(DictSet(EmptyDict, "PATH", "/usr/bin"), "NODE_ENV", "development")

\* environment={"NODE_ENV": "production"}
ProductionOverrides == DictSet(EmptyDict, "NODE_ENV", "production")

\* ------------------------------------------------------------------- jobs
PipelineJob(name, stage, commands, overrides, timeout, retries) ==
  [name |-> name, stage |-> stage, commands |-> commands,
   environment |-> overrides, timeout_minutes |-> timeout,
   retry_count |-> retries]

ValidateJob ==
  PipelineJob("Environment Validation", VALIDATE,
              <<"python nits_rdl_deployment.py --help">>, EmptyDict,
              DefaultTimeoutMinutes, DefaultRetryCount)

BuildJob ==
  PipelineJob("Build Application", BUILD,
              <<"rm -rf node_modules/.vite-temp", "npm ci --include=dev",
                "npm run build">>,
              ProductionOverrides, DefaultTimeoutMinutes, DefaultRetryCount)

DeployJob(env) ==
  PipelineJob("Deploy to " \o Title(env), DEPLOY,
              <<"python rdl_deployment_pipeline.py --environment " \o env
                \o " --deploy-artifacts">>,
              ProductionOverrides, DeployTimeoutMinutes, DefaultRetryCount)

\* stage in stages (a Python list)
InList(x, list) == \E k \in DOMAIN list : list[k] = x

\* The job list run_pipeline plans, appended in the order of the requested
\* list instead of the fixed order.
RECURSIVE PlanJobsInListOrder(_, _, _)
PlanJobsInListOrder(st, auto, env) ==
  IF st = <<>> THEN <<>>
  ELSE (CASE Head(st) = VALIDATE -> <<ValidateJob>>
          [] Head(st) = BUILD -> <<BuildJob>>
          [] Head(st) = DEPLOY /\ auto -> <<DeployJob(env)>>
          [] OTHER -> <<>>)
       \o PlanJobsInListOrder(Tail(st), auto, env)

\* The job list run_pipeline plans for a requested stage list.
PlanJobs(st, auto, env) ==
  (IF InList(VALIDATE, st) THEN <<ValidateJob>> ELSE <<>>)
  \o (IF InList(BUILD, st) THEN <<BuildJob>> ELSE <<>>)
  \o (IF InList(DEPLOY, st) /\ auto THEN <<DeployJob(env)>> ELSE <<>>)

\* Stage lists without repetition, in any order.
StageLists ==
  {s \in UNION {[1..n -> PipelineStage] : n \in 0..3} :
     \A a, b \in DOMAIN s : a # b => s[a] # s[b]}

\* Jobs handed directly to execute_job.
DirectCommands(n) ==
  [k \in 1..n |-> IF k = 1 THEN "cmd1" ELSE IF k = 2 THEN "cmd2" ELSE "cmdN"]

DirectJobs ==
  {PipelineJob("Job", BUILD, DirectCommands(n), e, DefaultTimeoutMinutes, r) :
     n \in 0..MaxCmds, r \in 0..MaxRetry,
     e \in {EmptyDict, ProductionOverrides, DictSet(EmptyDict, "CI", "true")}}

\* What the process started for the Deploy job's command does: its server
\* serves until the timeout, its start fails (no dist/, bind error), it is
\* stopped by Ctrl+C, or the process could not be started at all.
DeployChildBehaviours ==
  {"serves_forever", "start_failed", "stopped", "not_spawned"}

\* What subprocess.run(..., timeout=...) gives the parent for a child of the
\* Deploy job's command: a child that exits gives sys.exit's status
\* (0 if success else 1), one that keeps serving is cut off by the timeout.
RunResult(b) ==
  CASE b = "serves_forever" -> "TimeoutExpired"
    [] b = "start_failed" -> "exit_nonzero"
    [] b = "stopped" -> "exit0"
    [] b = "not_spawned" -> "OSError"

\* The most jobs one call runs.
JobSlots == 1..3

\* ------------------------------------------------------------------ state
VARIABLES
  pc,               \* where the single thread of control is
  entry,            \* the entry point that was called
  args,             \* the parsed command line (main)
  environment,      \* config.environment
  auto_deploy,      \* config.auto_deploy
  stages,           \* run_pipeline's argument
  jobs,             \* run_pipeline's local job list
  i,                \* index in jobs of the job being executed
  attempt,          \* execute_job's loop variable over range(retry_count + 1)
  cmd,              \* index of the next command of the attempt
  success,          \* execute_job's local flag
  job_results,      \* self.job_results: job name -> bool
  job_ret,          \* the value execute_job returned
  successful_jobs,  \* run_pipeline's counter
  total_jobs,       \* run_pipeline's len(jobs)
  verdict,          \* the value run_pipeline returned: "none", "True", "False"
  status_report,    \* the report main generated
  exit_code,        \* the process exit status; -1 while running
  raised,           \* the exception that left the called entry point
  attempts_started, \* history: attempts begun, per job slot
  attempt_log,      \* history: how each attempt ended, per job slot
  failure_kind,     \* history: the last error execute_job logged, per job slot
  invocations,      \* history: calls of execute_job, per job slot
  cmd_runs,         \* history: subprocess.run calls, per job slot
  backoffs,         \* history: time.sleep(2) calls, per job slot
  exec_order,       \* history: the stages of the jobs executed, in order
  build_exists,     \* deployment: build_path.exists()
  bound_ports,      \* the ports other sockets hold
  config_port,      \* deployment: self.config.port
  original_port,    \* history: config.port when start_server was called
  server_process,   \* deployment: the port of the TCPServer held in
                    \* self.server_process; 0 for None
  ss_ret,           \* the value start_server returned: "none", "True", "False"
  port_unavailable, \* history: start_server found config.port held
  server_error,     \* history: the error start_server logged
  main_success,     \* main's local success: "none", "True", "False"
  os_environ,       \* os.environ of the process running the orchestrator
  environ_before,   \* history: os.environ when execute_job was entered
  child_env,        \* history: env= of the last subprocess.run call
  attempt_runs,     \* history: the commands the current attempt ran, with
                    \* their outcomes
  prev_failed_at,   \* history: index of the command whose non-zero exit
                    \* failed the latest failed attempt of the job; 0 for none
  deploy_children,  \* history: what the Deploy job's child processes did
  max_retries,      \* deployment: self.config.max_retries
  step,             \* deploy's position in its list of steps, 1..4
  retry_count,      \* deploy's local retry_count
  step_ret,         \* the value the last of steps 1..3 returned
  step_calls,       \* history: calls of each step made by deploy
  step_ok,          \* history: the step returned True on some call
  deploy_ret,       \* the value deploy returned: "none", "True", "False"
  dep_environment,  \* deployment: self.config.environment
  health_monitor_active, \* deployment: self.health_monitor_active
  health_threads,   \* the health_check threads started, each at "test" (the
                    \* while condition), "check", "sleep" or "exited"
  health_stopped,   \* history: stop_server was called
  checked_after_stop \* history: a connectivity check began after stop_server

orchVars == <<environment, auto_deploy, stages, jobs, i, attempt, cmd, success,
              job_results, job_ret, successful_jobs, total_jobs, verdict>>
mainVars == <<args, status_report, exit_code, main_success>>
histVars == <<attempts_started, attempt_log, failure_kind, invocations,
              cmd_runs, backoffs, exec_order>>
serverVars == <<build_exists, bound_ports, config_port, original_port,
                server_process, ss_ret, port_unavailable, server_error>>
runVars == <<os_environ, environ_before, child_env, attempt_runs,
             prev_failed_at, deploy_children>>
deployVars == <<max_retries, step, retry_count, step_ret, step_calls, step_ok,
                deploy_ret>>
healthVars == <<dep_environment, health_monitor_active, health_threads,
                health_stopped, checked_after_stop>>
vars == <<pc, entry, raised, orchVars, mainVars, histVars, serverVars,
          runVars, deployVars, healthVars>>

\* deploy's steps: 1 validate_environment, 2 install_dependencies,
\* 3 build_application, 4 start_server.
DeploySteps == 1..4

\* --env choices of the deployment script.
DeploymentEnvironments == {"development", "production"}

NoArgs ==
  [create_workflow |-> FALSE, validate_only |-> FALSE,
   deploy_artifacts |-> FALSE, auto_deploy |-> FALSE,
   environment |-> "development"]

ArgsSet ==
  [create_workflow : BOOLEAN, validate_only : BOOLEAN,
   deploy_artifacts : BOOLEAN, auto_deploy : BOOLEAN,
   environment : PipelineEnvironment]

NoReport == [total_jobs |-> -1]

\* The state after NITSPipelineOrchestrator.__init__, before any call.
Init ==
  /\ pc = "idle"
  /\ entry = "none"
  /\ raised = "none"
  /\ args = NoArgs
  /\ environment = "development"
  /\ auto_deploy = FALSE
  /\ stages = <<>>
  /\ jobs = <<>>
  /\ i = 0
  /\ attempt = 0
  /\ cmd = 0
  /\ success = TRUE
  /\ job_results = EmptyDict
  /\ job_ret = FALSE
  /\ successful_jobs = 0
  /\ total_jobs = 0
  /\ verdict = "none"
  /\ status_report = NoReport
  /\ exit_code = -1
  /\ attempts_started = [j \in JobSlots |-> 0]
  /\ attempt_log = [j \in JobSlots |-> <<>>]
  /\ failure_kind = [j \in JobSlots |-> "none"]
  /\ invocations = [j \in JobSlots |-> 0]
  /\ cmd_runs = [j \in JobSlots |-> 0]
  /\ backoffs = [j \in JobSlots |-> 0]
  /\ exec_order = <<>>
  /\ build_exists = FALSE
  /\ bound_ports = {}
  /\ config_port = DefaultPort
  /\ original_port = DefaultPort
  /\ server_process = 0
  /\ ss_ret = "none"
  /\ port_unavailable = FALSE
  /\ server_error = "none"
  /\ main_success = "none"
  /\ os_environ = AmbientEnv
  /\ environ_before = os_environ
  /\ child_env = EmptyDict
  /\ attempt_runs = <<>>
  /\ prev_failed_at = 0
  /\ deploy_children = {}
  /\ max_retries = DefaultMaxRetries
  /\ step = 0
  /\ retry_count = 0
  /\ step_ret = "none"
  /\ step_calls = [k \in DeploySteps |-> 0]
  /\ step_ok = [k \in DeploySteps |-> FALSE]
  /\ deploy_ret = "none"
  /\ dep_environment = "development"
  /\ health_monitor_active = FALSE
  /\ health_threads = <<>>
  /\ health_stopped = FALSE
  /\ checked_after_stop = FALSE

job == jobs[i]

\* ------------------------------------------------------------ execute_job
\* The call execute_job(jobs[k]): the state at the top of its try block.
EnterExecuteJob(list, k) ==
  /\ i' = k
  /\ attempt' = 0
  /\ invocations' = [invocations EXCEPT ![k] = @ + 1]
  /\ exec_order' = Append(exec_order, list[k].stage)
  /\ pc' = "attempt_start"

\* execute_job(job) called directly on a fresh orchestrator.
call_execute_job ==
  /\ pc = "idle"
  /\ \E j \in DirectJobs : jobs' = <<j>> /\ EnterExecuteJob(<<j>>, 1)
  /\ entry' = "execute_job"
  /\ UNCHANGED <<raised, environment, auto_deploy, stages, cmd, success,
                 job_results, job_ret, successful_jobs, total_jobs, verdict,
                 mainVars, attempts_started, attempt_log, failure_kind,
                 cmd_runs, backoffs>>
  /\ UNCHANGED serverVars
  /\ UNCHANGED runVars
  /\ UNCHANGED deployVars
  /\ UNCHANGED healthVars

\* self.job_results[job.name] = ret; return ret
ExecuteJobReturn(ret) ==
  /\ job_results' = DictSet(job_results, job.name, ret)
  /\ job_ret' = ret
  /\ pc' = IF entry = "execute_job" THEN "done" ELSE "job_returned"

\* An attempt loop that makes one attempt too many.
AttemptsAllowedOneMore(j) == j.retry_count + 2

\* len(range(job.retry_count + 1)): the iterations of the attempt loop.
AttemptsAllowed(j) == j.retry_count + 1

\* A retry attempt resuming at the command that failed the attempt before.
AttemptStartResumes ==
  /\ pc = "attempt_start"
  /\ IF attempt < AttemptsAllowed(job)
     THEN /\ success' = TRUE
          /\ cmd' = IF attempt > 0 /\ prev_failed_at > 0 THEN prev_failed_at
                    ELSE 1
          /\ attempts_started' = [attempts_started EXCEPT ![i] = @ + 1]
          /\ attempt_runs' = <<>>
          /\ environ_before' = IF attempt = 0 THEN os_environ
                               ELSE environ_before
          /\ prev_failed_at' = IF attempt = 0 THEN 0 ELSE prev_failed_at
          /\ pc' = "command"
          /\ UNCHANGED <<job_results, job_ret>>
     ELSE /\ ExecuteJobReturn(FALSE)
          /\ UNCHANGED <<success, cmd, attempts_started, attempt_runs,
                         environ_before, prev_failed_at>>
  /\ UNCHANGED <<entry, raised, environment, auto_deploy, stages, jobs, i,
                 attempt, successful_jobs, total_jobs, verdict, mainVars,
                 attempt_log, failure_kind, invocations, cmd_runs, backoffs,
                 exec_order, os_environ, child_env, deploy_children>>
  /\ UNCHANGED serverVars
  /\ UNCHANGED deployVars
  /\ UNCHANGED healthVars

\* for attempt in range(job.retry_count + 1): the next iteration begins
\* (success = True, then the inner loop from the first command), or the
\* range is exhausted and the code after the try block runs.
execute_job_attempt_start ==
  /\ pc = "attempt_start"
  /\ IF attempt < AttemptsAllowed(job)
     THEN /\ success' = TRUE
          /\ cmd' = 1
          /\ attempts_started' = [attempts_started EXCEPT ![i] = @ + 1]
          /\ attempt_runs' = <<>>
          /\ environ_before' = IF attempt = 0 THEN os_environ
                               ELSE environ_before
          /\ prev_failed_at' = IF attempt = 0 THEN 0 ELSE prev_failed_at
          /\ pc' = "command"
          /\ UNCHANGED <<job_results, job_ret>>
     ELSE /\ ExecuteJobReturn(FALSE)
          /\ UNCHANGED <<success, cmd, attempts_started, attempt_runs,
                         environ_before, prev_failed_at>>
  /\ UNCHANGED <<entry, raised, environment, auto_deploy, stages, jobs, i,
                 attempt, successful_jobs, total_jobs, verdict, mainVars,
                 attempt_log, failure_kind, invocations, cmd_runs, backoffs,
                 exec_order, os_environ, child_env, deploy_children>>
  /\ UNCHANGED serverVars
  /\ UNCHANGED deployVars
  /\ UNCHANGED healthVars

\* An exception leaves the called entry point: main's handlers take it, a
\* direct caller sees it raised.
\* except KeyboardInterrupt: sys.exit(1), as for any other error.
MainExitInterruptFails(exc) == 1

\* except KeyboardInterrupt: sys.exit(0) / except Exception: sys.exit(1); an
\* exception no clause catches ends the interpreter with status 1.
MainExitOnException(exc) ==
  IF CaughtBy(MainClauses, exc) = "KeyboardInterrupt" THEN 0 ELSE 1

Propagate(exc) ==
  /\ raised' = exc
  /\ IF entry = "main"
     THEN /\ exit_code' = MainExitOnException(exc)
          /\ pc' = "exited"
     ELSE /\ exit_code' = exit_code
          /\ pc' = "raised"

\* A non-zero exit that is logged without leaving the inner loop.
CommandFailedNoBreak(o) ==
  /\ success' = FALSE
  /\ failure_kind' = [failure_kind EXCEPT ![i] = "CommandFailed"]
  /\ attempt_log' = [attempt_log EXCEPT ![i] = Append(@, o)]
  /\ cmd' = cmd + 1
  /\ UNCHANGED <<pc, raised, exit_code, job_results, job_ret>>

\* if result.returncode != 0: log "Command failed"; success = False; break
CommandFailed(o) ==
  /\ success' = FALSE
  /\ failure_kind' = [failure_kind EXCEPT ![i] = "CommandFailed"]
  /\ attempt_log' = [attempt_log EXCEPT ![i] = Append(@, o)]
  /\ pc' = "attempt_end"
  /\ UNCHANGED <<cmd, raised, exit_code, job_results, job_ret>>

\* One subprocess.run(command, ..., env={**os.environ, **job.environment},
\* timeout=job.timeout_minutes * 60) of the inner loop, with what the code
\* does on each outcome. The child of the Deploy job's command decides the
\* outcome unless the parent is interrupted while it waits.
execute_job_run_command ==
  /\ pc = "command"
  /\ cmd <= Len(job.commands)
  /\ cmd_runs' = [cmd_runs EXCEPT ![i] = @ + 1]
  /\ child_env' = DictMerge(os_environ, job.environment)
  /\ \E o \in CommandOutcomes, b \in DeployChildBehaviours \cup {"none"} :
       /\ IF job.stage = DEPLOY
          THEN /\ b # "none"
               /\ o \in {RunResult(b), "KeyboardInterrupt"}
               /\ deploy_children' = deploy_children \cup {b}
          ELSE /\ b = "none"
               /\ deploy_children' = deploy_children
       /\ attempt_runs' =
            Append(attempt_runs, [command |-> job.commands[cmd], outcome |-> o])
       /\ prev_failed_at' = IF o = "exit_nonzero" THEN cmd ELSE prev_failed_at
       /\ CASE o = "exit0" ->
                 /\ cmd' = cmd + 1
                 /\ UNCHANGED <<pc, raised, exit_code, success, job_results,
                                job_ret, attempt_log, failure_kind>>
            [] o = "exit_nonzero" -> CommandFailed(o)
            [] OTHER ->
                 IF CaughtBy(ExecuteJobClauses, o) = ""
                 THEN /\ Propagate(o)
                      /\ attempt_log' = [attempt_log EXCEPT ![i] = Append(@, o)]
                      /\ UNCHANGED <<cmd, success, job_results, job_ret,
                                     failure_kind>>
                 ELSE /\ failure_kind' =
                           [failure_kind EXCEPT
                              ![i] = FailureKindOf(CaughtBy(ExecuteJobClauses, o))]
                      /\ attempt_log' = [attempt_log EXCEPT ![i] = Append(@, o)]
                      /\ ExecuteJobReturn(FALSE)
                      /\ UNCHANGED <<cmd, success, raised, exit_code>>
  /\ UNCHANGED <<entry, environment, auto_deploy, stages, jobs, i, attempt,
                 successful_jobs, total_jobs, verdict, args, status_report,
                 main_success, attempts_started, invocations, backoffs,
                 exec_order, os_environ, environ_before>>
  /\ UNCHANGED serverVars
  /\ UNCHANGED deployVars
  /\ UNCHANGED healthVars

\* The inner for loop ran out of commands.
execute_job_commands_done ==
  /\ pc = "command"
  /\ cmd > Len(job.commands)
  /\ attempt_log' = [attempt_log EXCEPT ![i] = Append(@, "ok")]
  /\ pc' = "attempt_end"
  /\ UNCHANGED <<entry, raised, orchVars, mainVars, attempts_started,
                 failure_kind, invocations, cmd_runs, backoffs, exec_order>>
  /\ UNCHANGED serverVars
  /\ UNCHANGED runVars
  /\ UNCHANGED deployVars
  /\ UNCHANGED healthVars

\* The attempt loop recording a success without returning from it.
AttemptEndKeepsGoing ==
  /\ pc = "attempt_end"
  /\ job_results' = IF success THEN DictSet(job_results, job.name, TRUE)
                    ELSE job_results
  /\ backoffs' = IF ~success /\ attempt < job.retry_count
                 THEN [backoffs EXCEPT ![i] = @ + 1]
                 ELSE backoffs
  /\ attempt' = attempt + 1
  /\ pc' = "attempt_start"
  /\ UNCHANGED <<entry, raised, environment, auto_deploy, stages, jobs, i, cmd,
                 success, job_ret, successful_jobs, total_jobs, verdict,
                 mainVars, attempts_started, attempt_log, failure_kind,
                 invocations, cmd_runs, exec_order, serverVars>>
  /\ UNCHANGED runVars
  /\ UNCHANGED deployVars
  /\ UNCHANGED healthVars

\* if success: ... return True / elif attempt < job.retry_count: sleep(2)
execute_job_attempt_end ==
  /\ pc = "attempt_end"
  /\ IF success
     THEN /\ ExecuteJobReturn(TRUE)
          /\ UNCHANGED <<attempt, backoffs>>
     ELSE /\ backoffs' = IF attempt < job.retry_count
                         THEN [backoffs EXCEPT ![i] = @ + 1]
                         ELSE backoffs
          /\ attempt' = attempt + 1
          /\ pc' = "attempt_start"
          /\ UNCHANGED <<job_results, job_ret>>
  /\ UNCHANGED <<entry, raised, environment, auto_deploy, stages, jobs, i, cmd,
                 success, successful_jobs, total_jobs, verdict, mainVars,
                 attempts_started, attempt_log, failure_kind, invocations,
                 cmd_runs, exec_order>>
  /\ UNCHANGED serverVars
  /\ UNCHANGED runVars
  /\ UNCHANGED deployVars
  /\ UNCHANGED healthVars

\* ----------------------------------------------------------- run_pipeline
PyBool(b) == IF b THEN "True" ELSE "False"

\* run_pipeline(stages) called directly on a fresh orchestrator.
call_run_pipeline ==
  /\ pc = "idle"
  /\ entry' = "run_pipeline"
  /\ stages' \in StageLists
  /\ auto_deploy' \in BOOLEAN
  /\ environment' \in PipelineEnvironment
  /\ pc' = "run_pipeline"
  /\ UNCHANGED <<raised, jobs, i, attempt, cmd, success, job_results, job_ret,
                 successful_jobs, total_jobs, verdict, mainVars, histVars>>
  /\ UNCHANGED serverVars
  /\ UNCHANGED runVars
  /\ UNCHANGED deployVars
  /\ UNCHANGED healthVars

\* The job definitions, total_jobs = len(jobs), successful_jobs = 0.
run_pipeline_begin ==
  /\ pc = "run_pipeline"
  /\ jobs' = PlanJobs(stages, auto_deploy, environment)
  /\ total_jobs' = Len(jobs')
  /\ successful_jobs' = 0
  /\ i' = 0
  /\ pc' = "loop"
  /\ UNCHANGED <<entry, raised, environment, auto_deploy, stages, attempt, cmd,
                 success, job_results, job_ret, verdict, mainVars, histVars>>
  /\ UNCHANGED serverVars
  /\ UNCHANGED runVars
  /\ UNCHANGED deployVars
  /\ UNCHANGED healthVars

\* for i, job in enumerate(jobs, 1): the next job is executed, or the loop ends.
run_pipeline_next_job ==
  /\ pc = "loop"
  /\ IF i < Len(jobs)
     THEN /\ EnterExecuteJob(jobs, i + 1)
     ELSE /\ pc' = "summary"
          /\ UNCHANGED <<i, attempt, invocations, exec_order>>
  /\ UNCHANGED <<entry, raised, environment, auto_deploy, stages, jobs, cmd,
                 success, job_results, job_ret, successful_jobs, total_jobs,
                 verdict, mainVars, attempts_started, attempt_log,
                 failure_kind, cmd_runs, backoffs>>
  /\ UNCHANGED serverVars
  /\ UNCHANGED runVars
  /\ UNCHANGED deployVars
  /\ UNCHANGED healthVars

\* The loop body continuing after a failed job instead of leaving the loop.
JobReturnedNoBreak ==
  /\ pc = "job_returned"
  /\ successful_jobs' = IF job_ret THEN successful_jobs + 1 ELSE successful_jobs
  /\ pc' = "loop"
  /\ UNCHANGED <<entry, raised, environment, auto_deploy, stages, jobs, i,
                 attempt, cmd, success, job_results, job_ret, total_jobs,
                 verdict, mainVars, histVars>>
  /\ UNCHANGED serverVars
  /\ UNCHANGED runVars
  /\ UNCHANGED deployVars
  /\ UNCHANGED healthVars

\* The loop body calling execute_job again for a job that failed.
JobReturnedRetry ==
  /\ pc = "job_returned"
  /\ IF job_ret
     THEN /\ successful_jobs' = successful_jobs + 1
          /\ pc' = "loop"
          /\ UNCHANGED <<i, attempt, invocations, exec_order>>
     ELSE /\ IF invocations[i] < 2
             THEN EnterExecuteJob(jobs, i)
             ELSE /\ pc' = "summary"
                  /\ UNCHANGED <<i, attempt, invocations, exec_order>>
          /\ UNCHANGED successful_jobs
  /\ UNCHANGED <<entry, raised, environment, auto_deploy, stages, jobs, cmd,
                 success, job_results, job_ret, total_jobs, verdict, mainVars,
                 attempts_started, attempt_log, failure_kind, cmd_runs,
                 backoffs>>
  /\ UNCHANGED serverVars
  /\ UNCHANGED runVars
  /\ UNCHANGED deployVars
  /\ UNCHANGED healthVars

\* if self.execute_job(job): successful_jobs += 1 / else: ... break
run_pipeline_job_returned ==
  /\ pc = "job_returned"
  /\ IF job_ret
     THEN /\ successful_jobs' = successful_jobs + 1
          /\ pc' = "loop"
     ELSE /\ pc' = "summary"
          /\ UNCHANGED successful_jobs
  /\ UNCHANGED <<entry, raised, environment, auto_deploy, stages, jobs, i,
                 attempt, cmd, success, job_results, job_ret, total_jobs,
                 verdict, mainVars, histVars>>
  /\ UNCHANGED serverVars
  /\ UNCHANGED runVars
  /\ UNCHANGED deployVars
  /\ UNCHANGED healthVars

\* The verdict of a run in which some job succeeded.
PipelineVerdictAnySuccess(ok, total) == ok > 0 \/ total = 0

\* if successful_jobs == total_jobs: return True / else: return False
PipelineVerdict(ok, total) == ok = total

run_pipeline_summary ==
  /\ pc = "summary"
  /\ verdict' = PyBool(PipelineVerdict(successful_jobs, total_jobs))
  /\ pc' = IF entry = "main" THEN "main_report" ELSE "done"
  /\ UNCHANGED <<entry, raised, environment, auto_deploy, stages, jobs, i,
                 attempt, cmd, success, job_results, job_ret, successful_jobs,
                 total_jobs, mainVars, histVars>>
  /\ UNCHANGED serverVars
  /\ UNCHANGED runVars
  /\ UNCHANGED deployVars
  /\ UNCHANGED healthVars

\* ----------------------------------------- generate_pipeline_status_report
Successes(results) == {n \in DOMAIN results : results[n]}

Max(a, b) == IF a >= b THEN a ELSE b

\* success_rate counting every recorded result as a success.
SuccessRateAllResults(results) ==
  [num |-> Cardinality(DOMAIN results),
   den |-> Max(Cardinality(DOMAIN results), 1)]

\* A success rate that counts a run without results as fully successful.
SuccessRateEmptyIsOne(results) ==
  IF DOMAIN results = {} THEN [num |-> 1, den |-> 1]
  ELSE [num |-> Cardinality(Successes(results)),
        den |-> Cardinality(DOMAIN results)]

\* len([r for r in job_results.values() if r]) / max(len(job_results), 1),
\* kept as the fraction num / den.
SuccessRate(results) ==
  [num |-> Cardinality(Successes(results)),
   den |-> Max(Cardinality(DOMAIN results), 1)]

generate_pipeline_status_report ==
  [environment |-> environment,
   job_results |-> job_results,
   success_rate |-> SuccessRate(job_results),
   total_jobs |-> Cardinality(DOMAIN job_results)]

\* generate_pipeline_status_report() called directly on the orchestrator,
\* before or after a call of one of its methods.
call_generate_pipeline_status_report ==
  /\ pc \in {"idle", "done"}
  /\ entry \in {"none", "execute_job", "run_pipeline"}
  /\ status_report = NoReport
  /\ status_report' = generate_pipeline_status_report
  /\ UNCHANGED <<pc, entry, raised, orchVars, args, exit_code, main_success,
                 histVars>>
  /\ UNCHANGED serverVars
  /\ UNCHANGED runVars
  /\ UNCHANGED deployVars
  /\ UNCHANGED healthVars

\* ------------------------------------------------------------ start_server
\* The port sets the probes are run against: the first k ports from the
\* default one are held by others, with or without one more held port after
\* the first free one.
HeldPrefix(k) == {DefaultPort + d : d \in 0..(k - 1)}

PortSets ==
  UNION {{HeldPrefix(k), HeldPrefix(k) \cup {DefaultPort + k + 1}} :
           k \in 0..ScanRange}

\* check_port_availability: the bind succeeds when nobody holds the port.
check_port_availability(port, bound) == port \notin bound

\* find_available_port probing from the port after start_port.
RECURSIVE FindFrom(_, _, _)
FindFrom(port, start_port, bound) ==
  IF port < start_port + ScanRange
  THEN IF check_port_availability(port, bound) THEN port
       ELSE FindFrom(port + 1, start_port, bound)
  ELSE 0

\* find_available_port returning the last free port of the range.
FindHighest(start_port, bound) ==
  LET free == {q \in start_port..(start_port + ScanRange - 1) :
                 check_port_availability(q, bound)}
  IN IF free = {} THEN 0 ELSE CHOOSE q \in free : \A r \in free : r <= q

\* find_available_port(start_port): the first available port of
\* start_port .. start_port + 99; 0 stands for the RuntimeError it raises.
find_available_port(start_port, bound) == FindFrom(start_port, start_port, bound)

\* sys.exit(0 if success else 1)
ExitStatus(ok) == IF ok THEN 0 ELSE 1

\* sys.exit raises SystemExit inside main's try block; no clause of main
\* catches it, so the status it carries is the exit status.
SysExit(code) ==
  IF CaughtBy(MainClauses, "SystemExit") = "" THEN code
  ELSE MainExitOnException("SystemExit")

\* return ret from start_server, to main's deploy-artifacts branch, to
\* deploy's retry loop or to the direct caller.
StartServerReturn(ret) ==
  /\ ss_ret' = PyBool(ret)
  /\ IF entry = "main"
     THEN /\ main_success' = PyBool(ret)
          /\ exit_code' = SysExit(ExitStatus(ret))
          /\ pc' = "exited"
     ELSE /\ UNCHANGED <<main_success, exit_code>>
          /\ pc' = IF entry = "deploy" THEN "deploy_returned" ELSE "done"

\* start_server() called directly on a fresh NITSRapidDeployment.
call_start_server ==
  /\ pc = "idle"
  /\ status_report = NoReport
  /\ entry' = "start_server"
  /\ dep_environment' \in DeploymentEnvironments
  /\ UNCHANGED <<health_monitor_active, health_threads, health_stopped,
                 checked_after_stop>>
  /\ build_exists' \in BOOLEAN
  /\ bound_ports' \in PortSets
  /\ original_port' = config_port
  /\ pc' = "ss_begin"
  /\ UNCHANGED <<raised, orchVars, mainVars, histVars, config_port,
                 server_process, ss_ret, port_unavailable, server_error>>
  /\ UNCHANGED runVars
  /\ UNCHANGED deployVars

\* start_server up to the port choice: the build directory test, the probe of
\* config.port and, when it is held, find_available_port.
start_server_find_port ==
  /\ pc = "ss_begin"
  /\ IF ~build_exists
     THEN /\ server_error' = "no_build_dir"
          /\ StartServerReturn(FALSE)
          /\ UNCHANGED <<raised, config_port, port_unavailable>>
     ELSE /\ port_unavailable' =
               ~check_port_availability(config_port, bound_ports)
          /\ IF check_port_availability(config_port, bound_ports)
             THEN /\ pc' = "ss_bind"
                  /\ UNCHANGED <<raised, exit_code, main_success, config_port,
                                 ss_ret>>
             ELSE IF find_available_port(config_port, bound_ports) = 0
             THEN /\ Propagate("RuntimeError")
                  /\ UNCHANGED <<config_port, ss_ret, main_success>>
             ELSE /\ config_port' =
                       find_available_port(config_port, bound_ports)
                  /\ pc' = "ss_bind"
                  /\ UNCHANGED <<raised, exit_code, main_success, ss_ret>>
          /\ UNCHANGED server_error
  /\ UNCHANGED <<entry, orchVars, args, status_report, histVars, build_exists,
                 bound_ports, original_port, server_process>>
  /\ UNCHANGED runVars
  /\ UNCHANGED deployVars
  /\ UNCHANGED healthVars

\* Another process binds the chosen port after the probe closed its socket
\* and before the TCPServer binds.
port_taken ==
  /\ pc = "ss_bind"
  /\ config_port \notin bound_ports
  /\ bound_ports' = bound_ports \cup {config_port}
  /\ UNCHANGED <<pc, entry, raised, orchVars, mainVars, histVars, build_exists,
                 config_port, original_port, server_process, ss_ret,
                 port_unavailable, server_error>>
  /\ UNCHANGED runVars
  /\ UNCHANGED deployVars
  /\ UNCHANGED healthVars

\* self.health_monitor_active = False; shutdown and close the server.
stop_server ==
  /\ health_monitor_active' = FALSE
  /\ health_stopped' = TRUE
  /\ server_process' = 0

\* if self.config.environment == "production": self.start_health_monitoring()
\* sets the flag and starts one more daemon thread running health_check.
StartHealthMonitoring(env) ==
  IF env = "production"
  THEN /\ health_monitor_active' = TRUE
       /\ health_threads' = Append(health_threads, "test")
  ELSE UNCHANGED <<health_monitor_active, health_threads>>

\* The try block of start_server up to serve_forever: os.chdir, the
\* TCPServer binding (host, config.port), and the health monitoring of a
\* production deployment.
start_server_bind ==
  /\ pc = "ss_bind"
  /\ \E o \in {"ok", "OSError", "KeyboardInterrupt"} :
       CASE o = "KeyboardInterrupt" ->
              /\ stop_server
              /\ StartServerReturn(TRUE)
              /\ UNCHANGED <<server_error, health_threads>>
         [] o = "OSError" ->
              /\ server_error' = "chdir"
              /\ StartServerReturn(FALSE)
              /\ UNCHANGED <<server_process, health_monitor_active,
                             health_threads, health_stopped>>
         [] o = "ok" /\ ~check_port_availability(config_port, bound_ports) ->
              /\ server_error' = "address_in_use"
              /\ StartServerReturn(FALSE)
              /\ UNCHANGED <<server_process, health_monitor_active,
                             health_threads, health_stopped>>
         [] OTHER ->
              /\ server_process' = config_port
              /\ StartHealthMonitoring(dep_environment)
              /\ pc' = "serving"
              /\ UNCHANGED <<exit_code, main_success, ss_ret, server_error,
                             health_stopped>>
  /\ UNCHANGED <<entry, raised, orchVars, args, status_report, histVars,
                 build_exists, bound_ports, config_port, original_port,
                 port_unavailable, dep_environment, checked_after_stop>>
  /\ UNCHANGED runVars
  /\ UNCHANGED deployVars

\* httpd.serve_forever() ends: by Ctrl+C (stop_server, return True) or by an
\* error (return False). On the error path nothing closes the TCPServer:
\* self.server_process keeps it and its socket stays bound to the port.
start_server_serve_forever ==
  /\ pc = "serving"
  /\ \E o \in {"OSError", "KeyboardInterrupt"} :
       IF o = "KeyboardInterrupt"
       THEN /\ stop_server
            /\ StartServerReturn(TRUE)
            /\ UNCHANGED <<server_error, bound_ports>>
       ELSE /\ server_error' = "serve"
            /\ bound_ports' = bound_ports \cup {server_process}
            /\ StartServerReturn(FALSE)
            /\ UNCHANGED <<server_process, health_monitor_active,
                           health_stopped>>
  /\ UNCHANGED <<entry, raised, orchVars, args, status_report, histVars,
                 build_exists, config_port, original_port, port_unavailable,
                 dep_environment, health_threads, checked_after_stop>>
  /\ UNCHANGED runVars
  /\ UNCHANGED deployVars

\* ----------------------------------------------------------------- deploy
\* The ports held when deploy is called: none, the configured one, or all the
\* probed ones.
DeployPortSets == {HeldPrefix(0), HeldPrefix(1), HeldPrefix(ScanRange)}

\* What validate_environment, install_dependencies and build_application can
\* do: they catch their own errors and return a bool, or are interrupted.
StepOutcomes == {"True", "False", "KeyboardInterrupt"}

\* deploy() called on a fresh NITSRapidDeployment: the first step's
\* retry_count = 0.
call_deploy ==
  /\ pc = "idle"
  /\ status_report = NoReport
  /\ entry' = "deploy"
  /\ max_retries' \in 0..MaxDeployRetries
  /\ dep_environment' \in DeploymentEnvironments
  /\ build_exists' \in BOOLEAN
  /\ bound_ports' \in DeployPortSets
  /\ step' = 1
  /\ retry_count' = 0
  /\ pc' = "deploy_loop"
  /\ UNCHANGED <<raised, orchVars, mainVars, histVars, runVars, config_port,
                 original_port, server_process, ss_ret, port_unavailable,
                 server_error, step_ret, step_calls, step_ok, deploy_ret,
                 health_monitor_active, health_threads, health_stopped,
                 checked_after_stop>>

\* The for loop moves to the next step with retry_count = 0, or is over and
\* deploy returns True.
DeployNextStep ==
  IF step < 4
  THEN /\ step' = step + 1
       /\ retry_count' = 0
       /\ pc' = "deploy_loop"
       /\ UNCHANGED deploy_ret
  ELSE /\ deploy_ret' = "True"
       /\ pc' = "done"
       /\ UNCHANGED <<step, retry_count>>

\* while retry_count < self.config.max_retries: if step_func(): the test of
\* the loop and, when it holds, the call of the step; when it fails the
\* loop is left without a break.
deploy_while ==
  /\ pc = "deploy_loop"
  /\ IF retry_count < max_retries
     THEN /\ step_calls' = [step_calls EXCEPT ![step] = @ + 1]
          /\ IF step = 4
             THEN /\ original_port' = config_port
                  /\ port_unavailable' = FALSE
                  /\ server_error' = "none"
                  /\ ss_ret' = "none"
                  /\ pc' = "ss_begin"
                  /\ UNCHANGED <<raised, exit_code, step_ret>>
             ELSE /\ \E o \in StepOutcomes :
                       IF o = "KeyboardInterrupt"
                       THEN Propagate(o) /\ UNCHANGED step_ret
                       ELSE /\ step_ret' = o
                            /\ pc' = "deploy_returned"
                            /\ UNCHANGED <<raised, exit_code>>
                  /\ UNCHANGED <<original_port, port_unavailable,
                                 server_error, ss_ret>>
          /\ UNCHANGED <<step, retry_count, deploy_ret>>
     ELSE /\ DeployNextStep
          /\ UNCHANGED <<raised, exit_code, step_ret, step_calls,
                         original_port, port_unavailable, server_error,
                         ss_ret>>
  /\ UNCHANGED <<entry, orchVars, args, status_report, main_success, histVars,
                 runVars, build_exists, bound_ports, config_port,
                 server_process, max_retries, step_ok, healthVars>>

\* The step returned: break on True; else retry_count += 1 and either
\* time.sleep(2) before the next test of the loop, or return False.
deploy_step_returned ==
  /\ pc = "deploy_returned"
  /\ IF (IF step = 4 THEN ss_ret ELSE step_ret) = "True"
     THEN /\ step_ok' = [step_ok EXCEPT ![step] = TRUE]
          /\ DeployNextStep
     ELSE /\ retry_count' = retry_count + 1
          /\ IF retry_count + 1 < max_retries
             THEN pc' = "deploy_loop" /\ UNCHANGED deploy_ret
             ELSE deploy_ret' = "False" /\ pc' = "done"
          /\ UNCHANGED <<step, step_ok>>
  /\ UNCHANGED <<entry, raised, orchVars, mainVars, histVars, runVars,
                 serverVars, max_retries, step_ret, step_calls, healthVars>>

\* ------------------------------------------------------------ health_check
\* while self.health_monitor_active: connect_ex(...); time.sleep(interval)
HealthThreadNext(st) ==
  CASE st = "test" -> IF health_monitor_active THEN "check" ELSE "exited"
    [] st = "check" -> "sleep"
    [] st = "sleep" -> "test"

\* One step of one running health_check thread; daemon threads end with the
\* process.
health_check_step ==
  /\ pc # "exited"
  /\ \E t \in DOMAIN health_threads :
       /\ health_threads[t] # "exited"
       /\ health_threads' =
            [health_threads EXCEPT ![t] = HealthThreadNext(health_threads[t])]
       /\ checked_after_stop' =
            (checked_after_stop
               \/ (health_stopped /\ HealthThreadNext(health_threads[t]) = "check"))
  /\ UNCHANGED <<pc, entry, raised, orchVars, mainVars, histVars, serverVars,
                 runVars, deployVars, dep_environment, health_monitor_active,
                 health_stopped>>

\* ------------------------------------------------------------------- main
\* What a call into create_workflow_file or validate_pipeline can do.
CallOutcomes == {"True", "False", "OSError", "KeyboardInterrupt"}

\* main() up to the branch it takes: the parsed arguments, the configuration
\* and the orchestrator.
main_dispatch ==
  /\ pc = "idle"
  /\ status_report = NoReport
  /\ entry' = "main"
  /\ \E a \in ArgsSet :
       /\ args' = a
       /\ environment' = a.environment
       /\ auto_deploy' = a.auto_deploy
       /\ IF a.create_workflow THEN pc' = "create_workflow" /\ stages' = stages
          ELSE IF a.validate_only THEN pc' = "validate_only" /\ stages' = stages
          ELSE IF a.deploy_artifacts
          THEN pc' = "deploy_artifacts" /\ stages' = stages
          ELSE /\ stages' = IF a.auto_deploy THEN <<VALIDATE, BUILD, DEPLOY>>
                            ELSE <<VALIDATE, BUILD>>
               /\ pc' = "run_pipeline"
  /\ UNCHANGED <<raised, jobs, i, attempt, cmd, success, job_results, job_ret,
                 successful_jobs, total_jobs, verdict, status_report,
                 exit_code, main_success, histVars, serverVars>>
  /\ UNCHANGED runVars
  /\ UNCHANGED deployVars
  /\ UNCHANGED healthVars

\* success = <call>; sys.exit(0 if success else 1), or the call raises.
MainCall(o) ==
  IF o \in {"True", "False"}
  THEN /\ main_success' = o
       /\ exit_code' = SysExit(ExitStatus(o = "True"))
       /\ pc' = "exited"
       /\ UNCHANGED raised
  ELSE /\ Propagate(o)
       /\ UNCHANGED main_success

\* success = orchestrator.create_workflow_file(); sys.exit(0 if success else 1)
main_create_workflow ==
  /\ pc = "create_workflow"
  /\ \E o \in CallOutcomes : MainCall(o)
  /\ UNCHANGED <<entry, orchVars, args, status_report, histVars, serverVars>>
  /\ UNCHANGED runVars
  /\ UNCHANGED deployVars
  /\ UNCHANGED healthVars

\* success = orchestrator.validate_pipeline(); sys.exit(0 if success else 1)
main_validate_only ==
  /\ pc = "validate_only"
  /\ \E o \in CallOutcomes : MainCall(o)
  /\ UNCHANGED <<entry, orchVars, args, status_report, histVars, serverVars>>
  /\ UNCHANGED runVars
  /\ UNCHANGED deployVars
  /\ UNCHANGED healthVars

\* deploy_artifacts(): False without dist/, else start_server() of a fresh
\* NITSRapidDeployment on the default port.
main_deploy_artifacts ==
  /\ pc = "deploy_artifacts"
  /\ dep_environment' = environment
  /\ UNCHANGED <<health_monitor_active, health_threads, health_stopped,
                 checked_after_stop>>
  /\ \E dist \in BOOLEAN :
       IF ~dist
       THEN /\ main_success' = "False"
            /\ exit_code' = SysExit(ExitStatus(FALSE))
            /\ pc' = "exited"
            /\ UNCHANGED <<build_exists, bound_ports, original_port>>
       ELSE /\ build_exists' = TRUE
            /\ bound_ports' \in PortSets
            /\ original_port' = config_port
            /\ pc' = "ss_begin"
            /\ UNCHANGED <<exit_code, main_success>>
  /\ UNCHANGED <<entry, raised, orchVars, args, status_report, histVars,
                 config_port, server_process, ss_ret, port_unavailable,
                 server_error>>
  /\ UNCHANGED runVars
  /\ UNCHANGED deployVars

\* The report is generated and written, then sys.exit(0 if success else 1).
main_report ==
  /\ pc = "main_report"
  /\ main_success' = verdict
  /\ status_report' = generate_pipeline_status_report
  /\ \E o \in {"ok", "OSError", "KeyboardInterrupt"} :
       IF o = "ok"
       THEN /\ exit_code' = SysExit(ExitStatus(verdict = "True"))
            /\ pc' = "exited"
            /\ UNCHANGED raised
       ELSE Propagate(o)
  /\ UNCHANGED <<entry, orchVars, args, histVars, serverVars>>
  /\ UNCHANGED runVars
  /\ UNCHANGED deployVars
  /\ UNCHANGED healthVars

\* ------------------------------------------------------------ specification
Next ==
  \/ call_execute_job
  \/ execute_job_attempt_start
  \/ execute_job_run_command
  \/ execute_job_commands_done
  \/ execute_job_attempt_end
  \/ call_run_pipeline
  \/ run_pipeline_begin
  \/ run_pipeline_next_job
  \/ run_pipeline_job_returned
  \/ run_pipeline_summary
  \/ call_generate_pipeline_status_report
  \/ call_start_server
  \/ start_server_find_port
  \/ port_taken
  \/ start_server_bind
  \/ start_server_serve_forever
  \/ call_deploy
  \/ deploy_while
  \/ deploy_step_returned
  \/ health_check_step
  \/ main_dispatch
  \/ main_create_workflow
  \/ main_validate_only
  \/ main_deploy_artifacts
  \/ main_report

Spec == Init /\ [][Next]_vars

\* run_pipeline called directly, with the steps of its single thread of
\* control: the interpreter runs on, and every subprocess.run returns, by
\* the command's exit or by its timeout, so no step is postponed for ever.
PipelineNext ==
  \/ call_run_pipeline
  \/ run_pipeline_begin
  \/ run_pipeline_next_job
  \/ run_pipeline_job_returned
  \/ run_pipeline_summary
  \/ execute_job_attempt_start
  \/ execute_job_run_command
  \/ execute_job_commands_done
  \/ execute_job_attempt_end

PipelineFairSpec == Init /\ [][PipelineNext]_vars /\ WF_vars(PipelineNext)

\* ------------------------------------------------------------- properties
\* The slots of the jobs of the current call.
Planned == 1..Len(jobs)

\* execute_job recorded a result for the job in slot j.
Recorded(j) == jobs[j].name \in DOMAIN job_results
RecordedFailed(j) == Recorded(j) /\ ~job_results[jobs[j].name]
RecordedSuccess(j) == Recorded(j) /\ job_results[jobs[j].name]

\* run_pipeline is the caller of execute_job.
InPipeline == entry \in {"main", "run_pipeline"}

\* C1: a job whose every attempt failed, by a non-zero exit status or by a
\* timeout, is recorded failed after exactly retry_count + 1 attempts.
C1_AlwaysFailingJobMakesAllAttempts ==
  \A j \in Planned :
    (/\ RecordedFailed(j)
     /\ \A k \in DOMAIN attempt_log[j] :
          attempt_log[j][k] \in {"exit_nonzero", "TimeoutExpired"})
    => attempts_started[j] = jobs[j].retry_count + 1

\* C2: a job whose attempt k is the first to succeed is recorded successful
\* with exactly k attempts started, k <= retry_count + 1, and no later attempt
\* is started; Validate succeeding and Build failing twice and then
\* succeeding gives the verdict True with 3 Build attempts.
C2_FirstSuccessEndsJob ==
  /\ \A j \in Planned : \A k \in DOMAIN attempt_log[j] :
       attempt_log[j][k] = "ok" =>
         /\ \A m \in 1..(k - 1) : attempt_log[j][m] = "exit_nonzero"
         /\ attempts_started[j] = k
         /\ Len(attempt_log[j]) = k
         /\ k <= jobs[j].retry_count + 1
         /\ (j # i \/ pc # "attempt_end") => RecordedSuccess(j)
  /\ (/\ InPipeline
      /\ verdict # "none"
      /\ jobs = <<ValidateJob, BuildJob>>
      /\ attempt_log[1] = <<"ok">>
      /\ attempt_log[2] = <<"exit_nonzero", "exit_nonzero", "ok">>)
     => verdict = "True" /\ attempts_started[2] = 3

C2_Witness ==
  /\ InPipeline
  /\ verdict = "True"
  /\ jobs = <<ValidateJob, BuildJob>>
  /\ attempt_log[2] = <<"exit_nonzero", "exit_nonzero", "ok">>
  /\ attempts_started[2] = 3

\* C3: once a job of run_pipeline is recorded failed, no later planned job is
\* ever invoked or runs a command, and the number of recorded results is the
\* position of the failed job in the plan.
C3_HaltsAtFirstFailure ==
  InPipeline =>
    \A j \in Planned :
      RecordedFailed(j) =>
        /\ \A m \in Planned : m > j => invocations[m] = 0 /\ cmd_runs[m] = 0
        /\ \A m \in Planned : m < j => RecordedSuccess(m)
        /\ Cardinality(DOMAIN job_results) = j

C3_Witness ==
  /\ InPipeline
  /\ verdict = "False"
  /\ Len(jobs) = 3
  /\ RecordedFailed(2)
  /\ attempts_started[2] = jobs[2].retry_count + 1
  /\ Cardinality(DOMAIN job_results) = 2

\* C4: the verdict run_pipeline returns is True exactly when there are as many
\* recorded job results as planned jobs and every recorded result is True.
C4_VerdictMeansAllSucceeded ==
  (InPipeline /\ verdict # "none") =>
    (verdict = "True" <=>
       /\ Cardinality(DOMAIN job_results) = Len(jobs)
       /\ \A n \in DOMAIN job_results : job_results[n])

C4_Witness ==
  /\ InPipeline
  /\ verdict = "False"
  /\ Len(jobs) = 2
  /\ Cardinality(DOMAIN job_results) = 2

\* C5: in a generated report total_jobs is the number of entries of
\* job_results, success_rate is successes / total_jobs when total_jobs > 0 and
\* 0 when total_jobs = 0.
C5_SuccessRate ==
  status_report # NoReport =>
    LET r == status_report
        ok == Cardinality({n \in DOMAIN r.job_results : r.job_results[n]})
    IN /\ r.total_jobs = Cardinality(DOMAIN r.job_results)
       /\ r.success_rate.den > 0
       /\ r.total_jobs > 0 =>
            r.success_rate.num * r.total_jobs = ok * r.success_rate.den
       /\ r.total_jobs = 0 => r.success_rate.num = 0

C5_Witness ==
  /\ status_report # NoReport
  /\ status_report.total_jobs = 2
  /\ status_report.success_rate = [num |-> 1, den |-> 2]

\* The last failure execute_job handled among the attempts of the job in
\* slot j (an interrupt passes through it unhandled); "none" when there is none.
LastFailure(j) ==
  LET bad == {k \in DOMAIN attempt_log[j] :
                attempt_log[j][k] \notin {"ok", "KeyboardInterrupt"}}
  IN IF bad = {} THEN "none"
     ELSE attempt_log[j][CHOOSE k \in bad : \A m \in bad : m <= k]

\* C6: a command that timed out makes its job fail, and the error reported for
\* it is the timed-out kind; the timed-out kind is reported only for a
\* timeout and the command-failed kind only for a non-zero exit status.
C6_TimeoutKindDistinct ==
  \A j \in Planned :
    /\ LastFailure(j) = "TimeoutExpired" =>
         RecordedFailed(j) /\ failure_kind[j] = "CommandTimedOut"
    /\ LastFailure(j) = "exit_nonzero" => failure_kind[j] = "CommandFailed"
    /\ failure_kind[j] = "CommandTimedOut" => LastFailure(j) = "TimeoutExpired"
    /\ failure_kind[j] = "CommandFailed" => LastFailure(j) = "exit_nonzero"

C6_Witness ==
  /\ Len(jobs) >= 1
  /\ attempt_log[1] = <<"exit_nonzero", "TimeoutExpired">>
  /\ failure_kind[1] = "CommandTimedOut"
  /\ RecordedFailed(1)

\* The mode main selected from its arguments.
Mode ==
  IF args.create_workflow THEN "create-workflow"
  ELSE IF args.validate_only THEN "validate-only"
  ELSE IF args.deploy_artifacts THEN "deploy-artifacts"
  ELSE "pipeline"

\* C7: the pipeline command line exits with 0 when the selected mode
\* succeeded, with 1 when it failed or an error was raised, and with 0 when
\* the user interrupted it.
C7_ExitCodes ==
  (entry = "main" /\ pc = "exited") =>
    /\ exit_code = (IF raised = "KeyboardInterrupt" THEN 0
                    ELSE IF raised # "none" THEN 1
                    ELSE IF main_success = "True" THEN 0 ELSE 1)
    /\ raised = "none" => main_success \in {"True", "False"}
    /\ (raised = "none" /\ Mode = "pipeline") => main_success = verdict
    /\ (raised = "none" /\ Mode = "deploy-artifacts" /\ ss_ret # "none")
         => main_success = ss_ret

C7_Witness ==
  /\ entry = "main"
  /\ pc = "exited"
  /\ Mode = "pipeline"
  /\ raised = "KeyboardInterrupt"
  /\ exit_code = 0
  /\ cmd_runs[2] > 0

\* The position of a stage in the fixed order.
StageRank(st) == CASE st = VALIDATE -> 1 [] st = BUILD -> 2 [] st = DEPLOY -> 3

\* C8: run_pipeline executes the jobs in the order Validate, Build, Deploy
\* whatever the order of the requested list; a job is executed only if its
\* stage is requested and every job executed before it succeeded.
C8_FixedStageOrder ==
  InPipeline =>
    /\ \A a, b \in DOMAIN exec_order :
         a < b => StageRank(exec_order[a]) < StageRank(exec_order[b])
    /\ \A a \in DOMAIN exec_order :
         /\ InList(exec_order[a], stages)
         /\ jobs[a].stage = exec_order[a]
         /\ \A b \in 1..(a - 1) : RecordedSuccess(b)

C8_Witness ==
  /\ entry = "run_pipeline"
  /\ stages = <<DEPLOY, BUILD, VALIDATE>>
  /\ exec_order = <<VALIDATE, BUILD, DEPLOY>>

\* The ports find_available_port probes for the port start_server was
\* called with.
ProbedPorts == original_port..(original_port + ScanRange - 1)

\* C9 as stated: when the configured port is held, start_server moves to a
\* free port above it and the held port never surfaces as an error or as a
\* failed start.
C9_PortNeverSurfaces ==
  port_unavailable =>
    /\ raised # "RuntimeError"
    /\ server_error # "address_in_use"
    /\ pc \in {"ss_bind", "serving"} => config_port > original_port

\* C9 amended: with the configured port held, start_server moves to the lowest
\* port of the 100 probed ones that was free at the probe and serves on it
\* unless os.chdir fails or the port is taken before the server binds it; a
\* RuntimeError leaves start_server exactly when all probed ports are held.
C9_LowestFreePortInRange ==
  port_unavailable =>
    /\ raised = "RuntimeError" <=>
         (pc # "ss_begin" /\ \A q \in ProbedPorts : q \in bound_ports
                          /\ config_port = original_port)
    /\ raised # "RuntimeError" =>
         /\ config_port \in ProbedPorts
         /\ config_port > original_port
         /\ \A q \in original_port..(config_port - 1) : q \in bound_ports
    /\ pc = "serving" => server_process = config_port
    /\ ss_ret = "False" => server_error \in {"chdir", "address_in_use", "serve"}
    /\ server_error = "address_in_use" => config_port \in bound_ports

C9_Witness ==
  /\ port_unavailable
  /\ pc = "serving"
  /\ DefaultPort + 1 \in bound_ports
  /\ server_process = DefaultPort + 2

\* C10: run_pipeline invokes execute_job at most once per planned job, and
\* once a job is recorded failed no command of it runs and no attempt of it
\* starts again.
C10_NoOrchestratorRetry ==
  [][InPipeline' =>
       \A j \in JobSlots :
         /\ invocations'[j] <= 1
         /\ (j \in Planned /\ RecordedFailed(j)) =>
              /\ cmd_runs'[j] = cmd_runs[j]
              /\ attempts_started'[j] = attempts_started[j]
              /\ invocations'[j] = invocations[j]]_vars

C10_Witness ==
  /\ InPipeline
  /\ verdict = "False"
  /\ RecordedFailed(1)
  /\ invocations[1] = 1
  /\ cmd_runs[1] = jobs[1].retry_count + 1

\* C11: executing a job never modifies the parent process environment, and
\* every command is given the ambient environment with the job's overrides
\* on top: the keys of both, the job's value on a shared key, the ambient
\* value elsewhere.
C11_ParentEnvironmentUntouched ==
  /\ os_environ = environ_before
  /\ (i \in Planned /\ cmd_runs[i] > 0) =>
       /\ DOMAIN child_env = DOMAIN environ_before \cup DOMAIN job.environment
       /\ \A n \in DOMAIN child_env :
            child_env[n] = IF n \in DOMAIN job.environment
                           THEN job.environment[n]
                           ELSE environ_before[n]

C11_Witness ==
  /\ i \in Planned
  /\ pc \in {"done", "job_returned"}
  /\ failure_kind[i] = "CommandTimedOut"
  /\ "NODE_ENV" \in DOMAIN os_environ \cap DOMAIN job.environment
  /\ os_environ["NODE_ENV"] = "development"
  /\ child_env["NODE_ENV"] = "production"
  /\ child_env["PATH"] = os_environ["PATH"]

\* C12: within one attempt the commands run in list order; every command
\* run before the last one exited with status 0, so nothing runs after a
\* failed command; a failed attempt ended on a command that did not exit
\* with 0; and the attempt succeeds exactly when every command of the job
\* ran and exited with 0.
C12_AttemptShortCircuits ==
  (i \in Planned /\ pc \in {"command", "attempt_end"}) =>
    /\ Len(attempt_runs) <= Len(job.commands)
    /\ \A k \in 1..Len(attempt_runs) :
         /\ attempt_runs[k].command = job.commands[k]
         /\ k < Len(attempt_runs) => attempt_runs[k].outcome = "exit0"
    /\ pc = "attempt_end" =>
         /\ success <=>
              /\ Len(attempt_runs) = Len(job.commands)
              /\ \A k \in 1..Len(attempt_runs) :
                   attempt_runs[k].outcome = "exit0"
         /\ ~success =>
              attempt_runs[Len(attempt_runs)].outcome = "exit_nonzero"

C12_Witness ==
  /\ i \in Planned
  /\ pc = "attempt_end"
  /\ ~success
  /\ Len(job.commands) = 3
  /\ Len(attempt_runs) = 2
  /\ attempt_runs[2].outcome = "exit_nonzero"

\* C13: every attempt, retries included, runs the job's commands from the
\* first one: the commands the attempt has run are commands 1 .. cmd - 1
\* with none left out, so a retry that reaches the command that failed the
\* attempt before has run again every command before it.
C13_RetryRestartsAtFirstCommand ==
  (i \in Planned /\ pc \in {"command", "attempt_end"}) =>
    /\ pc = "command" => cmd = Len(attempt_runs) + 1
    /\ attempt_runs # <<>> => attempt_runs[1].command = job.commands[1]
    /\ (attempt > 0 /\ prev_failed_at > 0
          /\ Len(attempt_runs) > 0
          /\ attempt_runs[Len(attempt_runs)].command
               = job.commands[prev_failed_at]) =>
         Len(attempt_runs) = prev_failed_at

C13_Witness ==
  /\ i \in Planned
  /\ attempt = 1
  /\ prev_failed_at = 2
  /\ pc = "command"
  /\ cmd = 3
  /\ Len(attempt_runs) = 2
  /\ attempt_runs[1].outcome = "exit0"
  /\ attempt_runs[2].outcome = "exit0"

\* C14: one backoff wait separates each failed attempt of a job from the
\* next attempt and none follows a successful or a last attempt, so a job
\* recorded failed, none of whose attempts succeeded, has waited exactly
\* retry_count times.
C14_BackoffBetweenAttempts ==
  \A j \in Planned :
    /\ attempts_started[j] > 0 =>
         backoffs[j] \in {attempts_started[j] - 1, attempts_started[j]}
    /\ (attempts_started[j] > 0 /\ (j # i \/ pc # "attempt_start")) =>
         backoffs[j] = attempts_started[j] - 1
    /\ RecordedSuccess(j) => backoffs[j] = attempts_started[j] - 1
    /\ RecordedFailed(j) => backoffs[j] = jobs[j].retry_count

\* C15: when running a job's command raises an unexpected exception (an
\* OSError of subprocess.run), the job is recorded failed and never
\* successful, no later job is executed, run_pipeline returns False and the
\* command line, unless Ctrl+C interrupts it before it exits, ends with
\* status 1.
C15_UnexpectedExceptionAborts ==
  \A j \in Planned :
    (attempt_log[j] # <<>>
       /\ attempt_log[j][Len(attempt_log[j])] = "OSError") =>
      /\ RecordedFailed(j)
      /\ failure_kind[j] = "UnexpectedException"
      /\ \A k \in JobSlots : k > j => invocations[k] = 0 /\ cmd_runs[k] = 0
      /\ attempts_started[j] = Len(attempt_log[j])
      /\ (InPipeline /\ pc \in {"main_report", "done", "exited"}) =>
           verdict = "False"
      /\ (entry = "main" /\ pc = "exited" /\ raised # "KeyboardInterrupt") =>
           exit_code = 1

C15_Witness ==
  /\ entry = "main"
  /\ pc = "exited"
  /\ exit_code = 1
  /\ raised = "none"
  /\ Len(jobs) = 3
  /\ RecordedSuccess(1)
  /\ attempt_log[2] = <<"exit_nonzero", "OSError">>
  /\ RecordedFailed(2)
  /\ invocations[3] = 0
  /\ verdict = "False"

\* C16: deploy() returns True only if each of its four steps was called and
\* returned True, the steps are called in order (a step is called only
\* after every step before it returned True), and a False return follows
\* exactly max_retries calls of a step that never returned True, with no
\* later step called; for every value of max_retries.
C16_DeployRunsEveryStep ==
  entry = "deploy" =>
    /\ deploy_ret = "True" =>
         \A k \in DeploySteps : step_calls[k] > 0 /\ step_ok[k]
    /\ \A k \in DeploySteps :
         step_calls[k] > 0 => \A n \in 1..(k - 1) : step_ok[n]
    /\ deploy_ret = "False" =>
         \E k \in DeploySteps :
           /\ ~step_ok[k]
           /\ step_calls[k] = max_retries
           /\ \A n \in DeploySteps : n > k => step_calls[n] = 0

\* C20: health_check threads exist only for a production deployment, at
\* most one of them is running at any time, and none begins a connectivity
\* check after stop_server was called.
C20_OneHealthCheckThread ==
  /\ health_threads # <<>> => dep_environment = "production"
  /\ Cardinality({t \in DOMAIN health_threads :
                    health_threads[t] # "exited"}) <= 1
  /\ ~checked_after_stop

\* C17: once run_pipeline has returned and the status report has been
\* generated from the results of that run, the verdict is True if and only
\* if the report's success_rate equals 1, also when no job was planned.
C17_VerdictAgreesWithReport ==
  (InPipeline /\ verdict # "none" /\ status_report # NoReport
     /\ status_report.job_results = job_results) =>
    (verdict = "True"
       <=> status_report.success_rate.num = status_report.success_rate.den)

\* C17 amended: once run_pipeline has returned and the status report has been
\* generated from the results of that run, with at least one job planned the
\* verdict is True if and only if the report's success_rate equals 1; with
\* no job planned the verdict is True and the report's success_rate is 0.
C17_VerdictAgreesWhenJobsPlanned ==
  (InPipeline /\ verdict # "none" /\ status_report # NoReport
     /\ status_report.job_results = job_results) =>
    /\ Len(jobs) > 0 =>
         (verdict = "True"
            <=> status_report.success_rate.num = status_report.success_rate.den)
    /\ Len(jobs) = 0 =>
         /\ verdict = "True"
         /\ status_report.success_rate.num = 0
         /\ status_report.total_jobs = 0

C17_Witness ==
  /\ entry = "run_pipeline"
  /\ pc = "done"
  /\ stages = <<DEPLOY>>
  /\ ~auto_deploy
  /\ Len(jobs) = 0
  /\ verdict = "True"
  /\ status_report # NoReport
  /\ status_report.success_rate = [num |-> 0, den |-> 1]

\* The most command executions the planned jobs allow.
RECURSIVE CommandBudgetUpTo(_)
CommandBudgetUpTo(k) ==
  IF k = 0 THEN 0
  ELSE CommandBudgetUpTo(k - 1)
       + (jobs[k].retry_count + 1) * Len(jobs[k].commands)

CommandBudget == CommandBudgetUpTo(Len(jobs))

RECURSIVE CommandRunsUpTo(_)
CommandRunsUpTo(k) ==
  IF k = 0 THEN 0 ELSE CommandRunsUpTo(k - 1) + cmd_runs[k]

\* The command executions of the run so far.
TotalCommandRuns == CommandRunsUpTo(Len(jobs))

\* C18: in a run of run_pipeline the number of command executions never
\* exceeds the sum over the planned jobs of (retry_count + 1) * (number of
\* commands), and every call of run_pipeline leads to a returned verdict,
\* unless Ctrl+C ends the run first.
C18_RunPipelineTerminates ==
  /\ [](InPipeline => TotalCommandRuns <= CommandBudget)
  /\ [](entry = "run_pipeline" =>
          <>(verdict # "none" \/ raised = "KeyboardInterrupt"))

C18_Witness ==
  /\ entry = "run_pipeline"
  /\ pc = "done"
  /\ verdict = "False"
  /\ Len(jobs) = 1
  /\ attempt_log[1] = <<"exit_nonzero", "exit_nonzero", "exit_nonzero">>
  /\ TotalCommandRuns = CommandBudget

\* C19: with auto_deploy enabled and the Validate and Build jobs recorded
\* successful, a Deploy job whose command started the artifact server and
\* whose server kept serving without error is recorded successful and
\* run_pipeline returns True (Ctrl+C aside).
C19_ServingDeploySucceeds ==
  (InPipeline /\ auto_deploy /\ Len(jobs) = 3
     /\ RecordedSuccess(1) /\ RecordedSuccess(2)
     /\ deploy_children = {"serves_forever"}
     /\ raised = "none"
     /\ pc \in {"job_returned", "summary", "main_report", "done", "exited"}) =>
    /\ RecordedSuccess(3)
    /\ verdict # "False"
    /\ pc \in {"main_report", "done", "exited"} => verdict = "True"

====
